---- MODULE Spec2Model ----
(***************************************************************************)
(* Telemetry acquisition engine of the Lichuan A4 servo drive HAL          *)
(* component: the poll cycle Lichuan_a4::read_data() of                    *)
(* src/src/lichuan_a4.cpp, its bounded retry loops, the decoding of the    *)
(* register blocks into HAL pins and the alarm reporting state machine.    *)
(*                                                                         *)
(* One device is modelled.  A poll cycle is a sequence of steps: one step  *)
(* per iteration of a retry loop (one block read and what the loop body    *)
(* does with it), one step for update_internal_state() and one for         *)
(* print_error_message().  pc is the position inside read_data().          *)
(***************************************************************************)
EXTENDS Integers, Sequences, FiniteSets, TLC

(***************************************************************************)
(* Bounds of the model.                                                    *)
(***************************************************************************)
\* Bound: the number of reads the transport may fail in a run of Spec; it
\* keeps the failure counter, which the program never resets, finite.
MaxErrors == 6

\* Bound: the number of reads the transport may fail in a run of SpecBurst.
MaxBurst == 20

\* Bound: the number of names (and targets) given on the command line.
MaxDevices == 3

\* Bound: the number of Modbus objects that exist at a time.
MaxWrappers == 2

\* Bound: the number of sessions modbus_new_rtu() creates in a run.
MaxSessions == 3

(***************************************************************************)
(* Program constants.                                                      *)
(***************************************************************************)
modbus_retries == 5
current_error_code_reg == 457
single_register_count == 1
digital_IO_start_reg == 466
digital_IO_reg_count == 2
speed_start_reg == 448
speed_reg_count == 3
torque_start_reg == 451
torque_reg_count == 3
MODBUS_MAX_READ_REGISTERS == 125
\* A hal_u32_t is kept as its two 16-bit halves, value = hi * 65536 + lo.
Half == 65536
no_error == 0

(***************************************************************************)
(* The drive, as far as the engine can observe it.  Speed and torque are   *)
(* live measurements, drawn anew at each read; the digital I/O registers   *)
(* and the error-code register are held by the drive between cycles.       *)
(***************************************************************************)
SpeedBlocks == { <<100, 98, 2>>, <<65535, 32768, 32767>> }
TorqueBlocks == { <<55, 50, 5>>, <<65535, 1000, 9>> }
\* register 467 bit 1 is the active-alarm output: clear in the first block,
\* set in the second.  Bits 8..15, and bits 6..7 of register 467, are noise.
DIOBlocks == { <<261, 193>>, <<5, 2>> }
\* 0: no error, 7: not in the enumeration, 12: overvoltage
Codes == { 0, 7, 12 }
DriveStates == [dio : DIOBlocks, code : Codes]

\* Error_code enumerators with a message of their own (lichuan_a4.h).
KnownCodes == {1, 2, 3, 4, 5, 6, 12, 13, 14, 15, 16, 18, 21, 24, 26, 27, 29, 36, 38, 39}

(***************************************************************************)
(* Values.                                                                 *)
(***************************************************************************)
u32(n) == [hi |-> (n \div Half) % Half, lo |-> n % Half]

\* x + n on a hal_u32_t, for 0 <= n < 65536: wraps at 2^32.
u32_add(x, n) ==
    [hi |-> (x.hi + ((x.lo + n) \div Half)) % Half, lo |-> (x.lo + n) % Half]

\* x < n on a hal_u32_t, for 0 <= n < 65536.
u32_below(x, n) == x.hi = 0 /\ x.lo < n

\* hal_float_t values are kept as decimals with one fractional digit.
Dec(w, f) == [whole |-> w, frac |-> f]

\* Mutant of int16: the word is taken as unsigned.
int16_unsigned(w) == w

\* static_cast<int16_t>(uint16_t)
int16(w) == IF w >= 32768 THEN w - 65536 ELSE w

\* Mutant of DivTen: the word is taken as signed before the division.
DivTen_signed(w) == Dec(int16(w) \div 10, int16(w) % 10)

\* uint16_t / 10.0
DivTen(w) == Dec(w \div 10, w % 10)

RECURSIVE Pow2(_)
Pow2(i) == IF i = 0 THEN 1 ELSE 2 * Pow2(i - 1)

\* Mutant of bitset8: bit 0 is the most significant of the eight.
bitset8_reversed(w, i) == ((w % 256) \div Pow2(7 - i)) % 2 = 1

\* std::bitset<8>{w}[i]
bitset8(w, i) == ((w % 256) \div Pow2(i)) % 2 = 1

\* enum class Error_code (lichuan_a4.h); no_error = 0 is defined above.
system_error == 1
DI_configuration_error == 2
communication_error == 3
control_power_is_off == 4
FPGA_internal_error == 5
zeroing_timeout == 6
overvoltage == 12
undervoltage == 13
overcurrent_and_grounding_errors == 14
over_heating == 15
excessive_load == 16
regen_discharge_resistance_overload == 18
encoder_error == 21
excessive_position_deviation == 24
overspeed == 26
command_pulse_division_frequency == 27
deviation_counter_overflow == 29
EEPROM_parameter_error == 36
stroke_limit_input_signal == 38
analog_command_overvoltage == 39

\* Mutant of default_message: the default case returns the empty message.
default_message_empty == ""

\* The default case of the switch in get_error_message.
default_message == "unknown error code"

\* Lichuan_a4::get_error_message; "" is the empty message.
get_error_message(code) ==
    CASE code = system_error -> "system error"
      [] code = DI_configuration_error -> "DI configuration error"
      [] code = communication_error -> "communication error"
      [] code = control_power_is_off -> "control power is off"
      [] code = FPGA_internal_error -> "FPGA internal error"
      [] code = zeroing_timeout -> "zeroing timeout"
      [] code = overvoltage -> "overvoltage"
      [] code = undervoltage -> "undervoltage"
      [] code = overcurrent_and_grounding_errors -> "overcurrent and grounding errors"
      [] code = over_heating -> "over heating"
      [] code = excessive_load -> "excessive load"
      [] code = regen_discharge_resistance_overload -> "regenerative discharge resistance overload"
      [] code = encoder_error -> "encoder error"
      [] code = excessive_position_deviation -> "excessive position deviation"
      [] code = overspeed -> "overspeed"
      [] code = command_pulse_division_frequency -> "command pulse division frequency"
      [] code = deviation_counter_overflow -> "deviation counter overflow"
      [] code = EEPROM_parameter_error -> "EEPROM parameter error"
      [] code = stroke_limit_input_signal -> "stroke limit input signal"
      [] code = analog_command_overvoltage -> "analog command overvoltage"
      [] code = no_error -> ""
      [] OTHER -> default_message

\* A read that hands a short answer to its caller.
read_registers_partial(address, count, retval, regs) ==
    IF count > MODBUS_MAX_READ_REGISTERS \/ count < 1
    THEN << >>
    ELSE IF retval > 0 THEN SubSeq(regs, 1, retval) ELSE << >>

\* Modbus::read_registers: retval is what modbus_read_registers() returned
\* and regs the words it stored.
read_registers(address, count, retval, regs) ==
    IF count > MODBUS_MAX_READ_REGISTERS \/ count < 1
    THEN << >>
    ELSE IF retval = count THEN SubSeq(regs, 1, count) ELSE << >>

\* Does Modbus::read_registers call modbus_read_registers()?
issues_request(count) == ~ (count > MODBUS_MAX_READ_REGISTERS \/ count < 1)

\* Modbus::write_register: retval is what modbus_write_register() returned,
\* an int that the return statement converts to bool.
write_register(address, value, retval) == retval # 0

\* What modbus_read_registers() can return for a request of count registers:
\* -1 (I/O error, timeout), a short count, or count.
TransportResults(count) == { -1, count - 1, count }

\* Hal_data::initialize_data
initialize_data ==
    [ commanded_speed |-> Dec(0, 0), feedback_speed |-> Dec(0, 0), deviation_speed |-> Dec(0, 0),
      commanded_torque |-> Dec(0, 0), feedback_torque |-> Dec(0, 0), deviation_torque |-> Dec(0, 0),
      dc_bus_volt |-> Dec(0, 0), torque_load |-> Dec(0, 0), res_braking |-> Dec(0, 0),
      torque_overload |-> Dec(0, 0), error_code |-> 0,
      digital_in0 |-> FALSE, digital_in1 |-> FALSE, digital_in2 |-> FALSE, digital_in3 |-> FALSE,
      digital_in4 |-> FALSE, digital_in5 |-> FALSE, digital_in6 |-> FALSE, digital_in7 |-> FALSE,
      digital_out0 |-> FALSE, digital_out1 |-> FALSE, digital_out2 |-> FALSE,
      digital_out3 |-> FALSE, digital_out4 |-> FALSE, digital_out5 |-> FALSE,
      modbus_polling |-> Dec(1, 0), modbus_errors |-> u32(0) ]

(***************************************************************************)
(* State.                                                                  *)
(***************************************************************************)
VARIABLES
    hal,         \* Hal_data: the output pins and parameters
    error_code,  \* Lichuan_a4::error_code, the remembered (reported) code
    pc,          \* position in read_data(): "idle" or the function running
    retries,     \* loop variable of the running retry loop
    data,        \* the vector returned by the last readRegisters call
    cerr,        \* codes of the error reports printed in the current cycle
    drive,       \* the drive's digital I/O registers and error-code register
    cyc,         \* observations of the current cycle (history)
    hist,        \* observations across cycles (history)
    env,         \* what the transport and the drive can deliver in this run
    main,        \* main(): its position, the done flag, the device list
    mb,          \* the last call of a Modbus member function and its result
    other,       \* the members of a second device, whose read_data() is not running
    own          \* Modbus objects and the sessions (modbus_t) they own

vars == <<hal, error_code, pc, retries, data, cerr, drive, cyc, hist, env, main, mb, other, own>>

Groups == {"read_speed_data", "read_torque_data", "read_digital_IO", "read_error_code"}

reg_count(g) ==
    CASE g = "read_speed_data" -> speed_reg_count
      [] g = "read_torque_data" -> torque_reg_count
      [] g = "read_digital_IO" -> digital_IO_reg_count
      [] g = "read_error_code" -> single_register_count

NoReport == -1

\* The environment of the poll-cycle specification: the blocks the drive
\* can deliver and the number of reads the transport may fail in a run.
EnvPoll == [ speed |-> SpeedBlocks, torque |-> TorqueBlocks, drives |-> DriveStates,
             budget |-> MaxErrors ]

\* An environment where the transport may fail every read of a cycle, and
\* more: the drive shows code 0 with its alarm output off and code 7 with
\* its alarm output on.
EnvBurst == [ speed |-> { <<100, 98, 2>> }, torque |-> { <<55, 50, 5>> },
              drives |-> { [dio |-> <<261, 193>>, code |-> 0],
                           [dio |-> <<5, 2>>, code |-> 7] },
              budget |-> MaxBurst ]

\* main() in its tick loop with one constructed device (station address 1).
MainPolling == [ pc |-> "sleep", done |-> 0, pending |-> << >>, devices |-> <<1>>,
                 ticks |-> 0, polled |-> << >>, signalled |-> FALSE,
                 names |-> 1, failure |-> "none", status |-> "running",
                 hal_exit |-> <<0>>, modbus_close |-> <<0>>, destroyed |-> 0 ]

\* The storage of Modbus objects, none constructed yet, and the sessions
\* modbus_new_rtu() has created: obj[w] is the member mb_ctx of object w,
\* a session number or nullptr; the calls of modbus_close() and
\* modbus_free() are counted for each session.
Wrappers == 1..MaxWrappers
Sessions == 1..MaxSessions
nullptr == 0
NoWrappers ==
    [ alive |-> [w \in Wrappers |-> FALSE],
      obj |-> [w \in Wrappers |-> nullptr],
      created |-> 0,
      connected |-> [x \in Sessions |-> FALSE],
      modbus_close |-> [x \in Sessions |-> 0],
      modbus_free |-> [x \in Sessions |-> 0] ]

\* No member function of Modbus has been called yet.
NoCall == [ op |-> "none", address |-> 0, count |-> 0, value |-> 0, retval |-> 0,
            regs |-> << >>, issued |-> FALSE, result |-> << >>, returned |-> FALSE ]

\* The observations of a device that has not run a cycle yet.
NoCycle(h) ==
    [ polled |-> << >>, reads |-> 0, fails |-> 0, failed_attempts |-> 0,
      errors_before |-> h.modbus_errors, error_code_before |-> no_error,
      dio_decoded |-> FALSE, code_read |-> FALSE, alarm_at_step |-> "none",
      block_reads |-> 0, total_failed |-> 0, total_exhausted |-> 0,
      looked_up |-> FALSE, message |-> "" ]

NoHistory ==
    [ prev_alarm |-> "none", last_report |-> NoReport, differed |-> FALSE,
      ep_reports |-> 0, ep_read_ok |-> FALSE, ep_own |-> 0,
      prev_zero |-> FALSE ]

\* A second device right after its construction: its members hal and
\* error_code, the drive it is wired to and the observations of its cycles.
OtherDevice ==
    [ hal |-> initialize_data, error_code |-> no_error,
      drive |-> [dio |-> <<261, 193>>, code |-> no_error],
      cerr |-> << >>, cyc |-> NoCycle(initialize_data), hist |-> NoHistory ]

\* A device right after its construction, with Hal_data h, in environment e.
InitDevice(e, h) ==
    /\ hal = h
    /\ error_code = no_error
    /\ pc = "idle"
    /\ retries = 0
    /\ data = << >>
    /\ cerr = << >>
    /\ env = e
    /\ drive \in e.drives
    /\ cyc = NoCycle(h)
    /\ hist = NoHistory
    /\ mb = NoCall
    /\ other = OtherDevice
    /\ own = NoWrappers

\* The device of a main() that is in its tick loop.
InitEngine(e, h) == InitDevice(e, h) /\ main = MainPolling

Init == InitEngine(EnvPoll, initialize_data)

InitBurst == InitEngine(EnvBurst, initialize_data)

\* hal->modbus_errors after 2^32 - 3 failed reads: 0xFFFFFFFD.
NearWrap == [hi |-> Half - 1, lo |-> Half - 3]

\* A device that has counted 2^32 - 3 failed reads since its construction.
InitWrap ==
    InitEngine([EnvBurst EXCEPT !.budget = MaxErrors],
               [initialize_data EXCEPT !.modbus_errors = NearWrap])

\* Register words at the edges of the 16-bit range.
EdgeSpeedBlocks == { <<0, 1, 32767>>, <<32768, 32769, 65535>>, <<65534, 100, 65436>> }

EdgeTorqueBlocks == { <<55, 50, 5>>, <<0, 9, 10>>, <<32767, 32768, 65535>> }

\* Every single bit of the two digital registers, and some mixed words.
EdgeDIOBlocks ==
    { <<Pow2(i), Pow2(i)>> : i \in 0..15 } \cup
    { <<0, 0>>, <<5, 2>>, <<261, 193>>, <<65535, 65535>> }

\* An environment for the decoding of the blocks: the transport never fails.
EnvDecode == [ speed |-> EdgeSpeedBlocks, torque |-> EdgeTorqueBlocks,
               drives |-> [dio : EdgeDIOBlocks, code : {0, 7}],
               budget |-> 0 ]

InitDecode == InitEngine(EnvDecode, initialize_data)

\* Every enumerator of Error_code and values outside the enumeration.
WideCodes == KnownCodes \cup {no_error, 7, 11, 17, 40, 65535}

\* An environment for the error messages: the drive shows any of WideCodes
\* with its alarm output on, and code 0 with its alarm output off; the
\* transport never fails.
EnvCodes == [ speed |-> { <<100, 98, 2>> }, torque |-> { <<55, 50, 5>> },
              drives |-> { [dio |-> <<261, 193>>, code |-> no_error] } \cup
                         [dio : { <<5, 2>> }, code : WideCodes],
              budget |-> 0 ]

InitCodes == InitEngine(EnvCodes, initialize_data)


(***************************************************************************)
(* Helpers of the poll cycle.                                              *)
(***************************************************************************)
\* The active-alarm output as the drive presents it (register 467, bit 1).
DriveAlarm(d) == bitset8(d.dio[2], 1)

\* An alarm episode on the drive: alarm output set and a non-zero code.
InEpisode(d) == DriveAlarm(d) /\ d.code # no_error

\* Mutant of LoopAgain: the loop has no ceiling.
LoopAgainForever(r) == TRUE

\* Mutant of LoopAgain: loop condition retries <= modbus_retries.
LoopAgainOffByOne(r) == r + 1 <= modbus_retries

\* for (retries = 0; retries < modbus_retries; retries++): after a failed
\* iteration with loop variable r, is there another iteration?
LoopAgain(r) == r + 1 < modbus_retries

\* Mutant of count_error: the increment is lost.
count_error_lost(h) == h

\* hal->modbus_errors++ on a hal_u32_t
count_error(h) == [h EXCEPT !.modbus_errors = u32_add(@, 1)]

\* Mutant of decode_speed: the deviation pin is not written.
decode_speed_partial(h, d) ==
    [h EXCEPT !.commanded_speed = Dec(int16(d[1]), 0),
              !.feedback_speed = Dec(int16(d[2]), 0)]

\* Loop body of read_speed_data on a read of the expected size.
decode_speed(h, d) ==
    [h EXCEPT !.commanded_speed = Dec(int16(d[1]), 0),
              !.feedback_speed = Dec(int16(d[2]), 0),
              !.deviation_speed = Dec(int16(d[3]), 0)]

\* A torque decode that also publishes the torque load.
decode_torque_with_load(h, d) ==
    [h EXCEPT !.commanded_torque = DivTen(d[1]),
              !.feedback_torque = DivTen(d[2]),
              !.deviation_torque = DivTen(d[3]),
              !.torque_load = DivTen(d[3])]

\* Loop body of read_torque_data on a read of the expected size.
decode_torque(h, d) ==
    [h EXCEPT !.commanded_torque = DivTen(d[1]),
              !.feedback_torque = DivTen(d[2]),
              !.deviation_torque = DivTen(d[3])]

\* Loop body of read_digital_IO on a read of the expected size.
decode_digital_IO(h, d) ==
    [h EXCEPT !.digital_in0 = bitset8(d[1], 0), !.digital_in1 = bitset8(d[1], 1),
              !.digital_in2 = bitset8(d[1], 2), !.digital_in3 = bitset8(d[1], 3),
              !.digital_in4 = bitset8(d[1], 4), !.digital_in5 = bitset8(d[1], 5),
              !.digital_in6 = bitset8(d[1], 6), !.digital_in7 = bitset8(d[1], 7),
              !.digital_out0 = bitset8(d[2], 0), !.digital_out1 = bitset8(d[2], 1),
              !.digital_out2 = bitset8(d[2], 2), !.digital_out3 = bitset8(d[2], 3),
              !.digital_out4 = bitset8(d[2], 4), !.digital_out5 = bitset8(d[2], 5)]

\* Loop body of read_error_code on a read of the expected size.
decode_error_code(h, d) == [h EXCEPT !.error_code = d[1]]

Last(s) == IF s = << >> THEN "none" ELSE s[Len(s)]

\* History: one block read for group g was issued and returned ok or not.
Observe(g, ok) ==
    LET same == Last(cyc.polled) = g IN
    [cyc EXCEPT !.polled = IF same THEN @ ELSE Append(@, g),
                !.reads = IF same THEN @ + 1 ELSE 1,
                !.fails = (IF same THEN @ ELSE 0) + (IF ok THEN 0 ELSE 1),
                !.failed_attempts = @ + (IF ok THEN 0 ELSE 1),
                !.block_reads = @ + 1,
                !.total_failed = @ + (IF ok THEN 0 ELSE 1),
                !.total_exhausted =
                    @ + (IF ~ok /\ (IF same THEN cyc.fails ELSE 0) + 1 = modbus_retries
                         THEN 1 ELSE 0),
                !.dio_decoded = @ \/ (g = "read_digital_IO" /\ ok),
                !.code_read = @ \/ (g = "read_error_code" /\ ok)]

\* Mutant of Iteration: the error is counted only when the loop gives up.
IterationCountOnGiveUp(g, d, decoded, after) ==
    LET ok == Len(d) = reg_count(g) IN
    /\ data' = d
    /\ hal' = IF ok THEN decoded
              ELSE IF LoopAgain(retries) THEN hal ELSE count_error(hal)
    /\ IF ok \/ ~LoopAgain(retries)
       THEN pc' = after /\ retries' = 0
       ELSE pc' = pc /\ retries' = retries + 1
    /\ cyc' = Observe(g, ok)

\* Mutant of Iteration: a group that exhausts its retries ends the cycle.
IterationAbort(g, d, decoded, after) ==
    LET ok == Len(d) = reg_count(g) IN
    /\ data' = d
    /\ hal' = IF ok THEN decoded ELSE count_error(hal)
    /\ IF ok
       THEN pc' = after /\ retries' = 0
       ELSE IF LoopAgain(retries)
            THEN pc' = pc /\ retries' = retries + 1
            ELSE pc' = "idle" /\ retries' = 0
    /\ cyc' = Observe(g, ok)

\* One iteration of a retry loop: the block read, and on a vector of the
\* requested size the decode and return, otherwise the error count and the
\* loop's next iteration or its end.  decoded is the Hal_data after the
\* loop body's assignments, after is where read_data() continues.
Iteration(g, d, decoded, after) ==
    LET ok == Len(d) = reg_count(g) IN
    /\ data' = d
    /\ hal' = IF ok THEN decoded ELSE count_error(hal)
    /\ IF ok \/ ~LoopAgain(retries)
       THEN pc' = after /\ retries' = 0
       ELSE pc' = pc /\ retries' = retries + 1
    /\ cyc' = Observe(g, ok)

\* The transport fails only while the failure budget of the run lasts.
MayReturn(retval, count) == retval = count \/ cyc.total_failed < env.budget

(***************************************************************************)
(* Actions.                                                                *)
(***************************************************************************)
\* The orchestrator calls read_data().  The drive's held registers may have
\* changed since the previous cycle.  The history of the finished cycle is
\* folded into hist.
read_data ==
    /\ pc = "idle"
    /\ pc' = "read_speed_data"
    /\ retries' = 0
    /\ data' = << >>
    /\ cerr' = << >>
    /\ \E d \in env.drives :
        /\ drive' = d
        /\ hist' = [ prev_alarm |-> IF cyc.dio_decoded
                                    THEN (IF hal.digital_out1 THEN "on" ELSE "off")
                                    ELSE "none",
                     last_report |-> IF cerr # << >> THEN cerr[Len(cerr)] ELSE hist.last_report,
                     differed |-> IF cerr # << >> THEN FALSE
                                  ELSE hist.differed \/
                                       (hist.last_report # NoReport /\ error_code # hist.last_report),
                     ep_reports |-> IF d = drive THEN hist.ep_reports ELSE 0,
                     ep_read_ok |-> IF d = drive THEN hist.ep_read_ok ELSE FALSE,
                     ep_own |-> IF d = drive THEN hist.ep_own ELSE 0,
                     prev_zero |-> /\ cyc.alarm_at_step = "on"
                                   /\ cyc.code_read
                                   /\ hal.error_code = no_error ]
    /\ cyc' = [ polled |-> << >>, reads |-> 0, fails |-> 0, failed_attempts |-> 0,
                errors_before |-> hal.modbus_errors, error_code_before |-> error_code,
                dio_decoded |-> FALSE, code_read |-> FALSE, alarm_at_step |-> "none",
                block_reads |-> 0, total_failed |-> cyc.total_failed,
                total_exhausted |-> cyc.total_exhausted,
                looked_up |-> FALSE, message |-> "" ]
    /\ UNCHANGED <<hal, error_code, env, main, mb, other, own>>

read_speed_data ==
    /\ pc = "read_speed_data"
    /\ \E blk \in env.speed, retval \in TransportResults(speed_reg_count) :
        /\ MayReturn(retval, speed_reg_count)
        /\ LET d == read_registers(speed_start_reg, speed_reg_count, retval, blk) IN
           Iteration("read_speed_data", d, decode_speed(hal, d), "read_torque_data")
    /\ UNCHANGED <<error_code, cerr, drive, hist, env, main, mb, other, own>>

read_torque_data ==
    /\ pc = "read_torque_data"
    /\ \E blk \in env.torque, retval \in TransportResults(torque_reg_count) :
        /\ MayReturn(retval, torque_reg_count)
        /\ LET d == read_registers(torque_start_reg, torque_reg_count, retval, blk) IN
           Iteration("read_torque_data", d, decode_torque(hal, d), "read_digital_IO")
    /\ UNCHANGED <<error_code, cerr, drive, hist, env, main, mb, other, own>>

read_digital_IO ==
    /\ pc = "read_digital_IO"
    /\ \E retval \in TransportResults(digital_IO_reg_count) :
        /\ MayReturn(retval, digital_IO_reg_count)
        /\ LET d == read_registers(digital_IO_start_reg, digital_IO_reg_count, retval, drive.dio) IN
           Iteration("read_digital_IO", d, decode_digital_IO(hal, d), "update_internal_state")
    /\ UNCHANGED <<error_code, cerr, drive, hist, env, main, mb, other, own>>

\* Mutant of update_internal_state: the remembered code is not cleared.
update_internal_state_keep ==
    /\ pc = "update_internal_state"
    /\ IF hal.digital_out1
       THEN /\ pc' = "read_error_code"
            /\ retries' = 0
       ELSE /\ pc' = "idle"
            /\ UNCHANGED retries
    /\ cyc' = [cyc EXCEPT !.alarm_at_step = IF hal.digital_out1 THEN "on" ELSE "off"]
    /\ UNCHANGED <<hal, error_code, data, cerr, drive, hist, env, main, mb, other, own>>

\* Mutant of update_internal_state: the error code is read whatever the
\* alarm bit is.
update_internal_state_always ==
    /\ pc = "update_internal_state"
    /\ pc' = "read_error_code"
    /\ retries' = 0
    /\ error_code' = IF hal.digital_out1 THEN error_code ELSE no_error
    /\ cyc' = [cyc EXCEPT !.alarm_at_step = IF hal.digital_out1 THEN "on" ELSE "off"]
    /\ UNCHANGED <<hal, data, cerr, drive, hist, env, main, mb, other, own>>

\* update_internal_state that also clears the error-code pin when the alarm
\* bit is false.
update_internal_state_reset_pin ==
    /\ pc = "update_internal_state"
    /\ IF hal.digital_out1
       THEN /\ pc' = "read_error_code"
            /\ retries' = 0
            /\ UNCHANGED <<error_code, hal>>
       ELSE /\ error_code' = no_error
            /\ hal' = [hal EXCEPT !.error_code = no_error]
            /\ pc' = "idle"
            /\ UNCHANGED retries
    /\ cyc' = [cyc EXCEPT !.alarm_at_step = IF hal.digital_out1 THEN "on" ELSE "off"]
    /\ UNCHANGED <<data, cerr, drive, hist, env, main, mb, other, own>>

update_internal_state ==
    /\ pc = "update_internal_state"
    /\ IF hal.digital_out1
       THEN /\ pc' = "read_error_code"
            /\ retries' = 0
            /\ UNCHANGED error_code
       ELSE /\ error_code' = no_error
            /\ pc' = "idle"
            /\ UNCHANGED retries
    /\ cyc' = [cyc EXCEPT !.alarm_at_step = IF hal.digital_out1 THEN "on" ELSE "off"]
    /\ UNCHANGED <<hal, data, cerr, drive, hist, env, main, mb, other, own>>

read_error_code ==
    /\ pc = "read_error_code"
    /\ \E retval \in TransportResults(single_register_count) :
        /\ MayReturn(retval, single_register_count)
        /\ LET d == read_registers(current_error_code_reg, single_register_count, retval, <<drive.code>>) IN
           /\ Iteration("read_error_code", d, decode_error_code(hal, d), "print_error_message")
           /\ hist' = [hist EXCEPT !.ep_read_ok =
                           @ \/ (InEpisode(drive) /\ Len(d) = single_register_count)]
    /\ UNCHANGED <<error_code, cerr, drive, env, main, mb, other, own>>

\* Mutant of already_reported: the guard is missing.
already_reported_never(current_error, remembered) == FALSE

\* Does print_error_message return at "Don't print error message multiple
\* times"?
already_reported(current_error, remembered) == current_error = remembered

\* Mutant of print_error_message: a code without a message is not
\* remembered.
print_error_message_skip_empty ==
    /\ pc = "print_error_message"
    /\ LET current_error == hal.error_code IN
       IF already_reported(current_error, error_code) \/ get_error_message(current_error) = ""
       THEN UNCHANGED <<error_code, cerr, hist, cyc>>
       ELSE /\ error_code' = current_error
            /\ cyc' = [cyc EXCEPT !.looked_up = TRUE,
                                  !.message = get_error_message(current_error)]
            /\ cerr' = Append(cerr, hal.error_code)
            /\ hist' = [hist EXCEPT
                          !.ep_reports = IF InEpisode(drive) /\ @ < 2 THEN @ + 1 ELSE @,
                          !.ep_own = IF InEpisode(drive) /\ hal.error_code = drive.code /\ @ < 2
                                     THEN @ + 1 ELSE @]
    /\ pc' = "idle"
    /\ UNCHANGED <<hal, retries, data, drive, env, main, mb, other, own>>

\* print_error_message with the remembered code in a static variable, which
\* all devices share.
print_error_message_static ==
    /\ pc = "print_error_message"
    /\ LET current_error == hal.error_code IN
       IF already_reported(current_error, error_code)
       THEN UNCHANGED <<error_code, cerr, hist, cyc, other>>
       ELSE /\ error_code' = current_error
            /\ other' = [other EXCEPT !.error_code = current_error]
            /\ cyc' = [cyc EXCEPT !.looked_up = TRUE,
                                  !.message = get_error_message(current_error)]
            /\ IF get_error_message(current_error) = ""
               THEN UNCHANGED <<cerr, hist>>
               ELSE /\ cerr' = Append(cerr, hal.error_code)
                    /\ hist' = [hist EXCEPT
                                  !.ep_reports = IF InEpisode(drive) /\ @ < 2 THEN @ + 1 ELSE @,
                                  !.ep_own = IF InEpisode(drive) /\ hal.error_code = drive.code /\ @ < 2
                                             THEN @ + 1 ELSE @]
    /\ pc' = "idle"
    /\ UNCHANGED <<hal, retries, data, drive, env, main, mb, own>>

\* print_error_message without its test of message.empty().
print_error_message_no_check ==
    /\ pc = "print_error_message"
    /\ LET current_error == hal.error_code IN
       IF already_reported(current_error, error_code)
       THEN UNCHANGED <<error_code, cerr, hist, cyc>>
       ELSE /\ error_code' = current_error
            /\ cyc' = [cyc EXCEPT !.looked_up = TRUE,
                                  !.message = get_error_message(current_error)]
            /\ cerr' = Append(cerr, hal.error_code)
            /\ hist' = [hist EXCEPT
                          !.ep_reports = IF InEpisode(drive) /\ @ < 2 THEN @ + 1 ELSE @,
                          !.ep_own = IF InEpisode(drive) /\ hal.error_code = drive.code /\ @ < 2
                                     THEN @ + 1 ELSE @]
    /\ pc' = "idle"
    /\ UNCHANGED <<hal, retries, data, drive, env, main, mb, other, own>>

print_error_message ==
    /\ pc = "print_error_message"
    /\ LET current_error == hal.error_code IN
       IF already_reported(current_error, error_code)
       THEN UNCHANGED <<error_code, cerr, hist, cyc>>
       ELSE /\ error_code' = current_error
            /\ cyc' = [cyc EXCEPT !.looked_up = TRUE,
                                  !.message = get_error_message(current_error)]
            /\ IF get_error_message(current_error) = ""
               THEN UNCHANGED <<cerr, hist>>
               ELSE /\ cerr' = Append(cerr, hal.error_code)
                    /\ hist' = [hist EXCEPT
                                  !.ep_reports = IF InEpisode(drive) /\ @ < 2 THEN @ + 1 ELSE @,
                                  !.ep_own = IF InEpisode(drive) /\ hal.error_code = drive.code /\ @ < 2
                                             THEN @ + 1 ELSE @]
    /\ pc' = "idle"
    /\ UNCHANGED <<hal, retries, data, drive, env, main, mb, other, own>>

Next ==
    \/ read_data
    \/ read_speed_data
    \/ read_torque_data
    \/ read_digital_IO
    \/ update_internal_state
    \/ read_error_code
    \/ print_error_message

Spec == Init /\ [][Next]_vars

\* The poll cycle over register words at the edges of their range.
SpecDecode == InitDecode /\ [][Next]_vars

\* The poll cycle over every error code with a message and some without.
SpecCodes == InitCodes /\ [][Next]_vars

\* The poll cycle of a device whose failure counter is close to 2^32.
SpecWrap == InitWrap /\ [][Next]_vars

\* The poll cycle against a transport that may fail up to MaxBurst reads.
SpecBurst == InitBurst /\ [][Next]_vars

\* The steps of read_data() after its call.
InCycle ==
    \/ read_speed_data
    \/ read_torque_data
    \/ read_digital_IO
    \/ update_internal_state
    \/ read_error_code
    \/ print_error_message

\* read_data() runs on one thread and every block read returns, with the
\* words or with an error or timeout: a cycle that has started goes on.
SpecBurstFair == SpecBurst /\ WF_vars(InCycle)

\* The tick loop calls read_data() again after every tick: a cycle that has
\* ended is followed by another one.
SpecBurstLive == SpecBurstFair /\ WF_vars(read_data)

(***************************************************************************)
(* main(): device construction, the tick loop and the signal handler.      *)
(***************************************************************************)
\* What atoi() gives for the tokens of a --target option; a token that is
\* not a number gives 0.
Tokens == {0, 1, 2, 31, 32, 33}

\* The --target options of a command line: up to MaxDevices tokens.
Arguments == UNION { [1..n -> Tokens] : n \in 1..MaxDevices }

\* parse_arguments<int>: the values are taken up to the first token that is
\* below 1 or above 32; the break leaves the loop and keeps the values
\* before it.
RECURSIVE parse_arguments(_)
parse_arguments(tokens) ==
    IF tokens = << >> THEN << >>
    ELSE LET value == Head(tokens) IN
         IF value < 1 \/ value > 32
         THEN << >>
         ELSE <<value>> \o parse_arguments(Tail(tokens))

\* Does parse_arguments<int> print "Invalid input in 'target' option" for a
\* token of the option?
invalid_token(tokens) ==
    \E i \in DOMAIN tokens : tokens[i] < 1 \/ tokens[i] > 32

\* The two tests of main() on the parsed options: as many names as
\* targets, and neither list empty.
arguments_accepted(names, targets) ==
    ~ (names # Len(targets)) /\ ~ (names = 0 \/ targets = << >>)

\* What a constructor that threw has done with the session and the HAL
\* component of its device: [modbus_close, modbus_free, hal_exit] counts
\* the calls made before the exception reaches main().
NoCleanup == [modbus_close |-> 0, modbus_free |-> 0, hal_exit |-> 0]

\* main() after the options are parsed and the signal handlers installed,
\* before the first device is constructed; or after exit(-1) when the
\* options were rejected.
InitMain ==
    /\ InitDevice(EnvBurst, initialize_data)
    /\ \E a \in Arguments, n \in 1..MaxDevices :
         LET t == parse_arguments(a)
             ok == arguments_accepted(n, t) IN
         main = [ pc |-> IF ok THEN "construct" ELSE "exit",
                  done |-> 0, pending |-> IF ok THEN t ELSE << >>,
                  devices |-> << >>,
                  ticks |-> 0, polled |-> << >>, signalled |-> FALSE,
                  names |-> n, failure |-> IF ok THEN "none" ELSE "arguments",
                  status |-> IF ok THEN "running" ELSE "failure",
                  hal_exit |-> << >>, modbus_close |-> << >>, destroyed |-> 0,
                  ctor |-> NoCleanup, invalid_token |-> invalid_token(a) ]

\* The calls of Modbus::Modbus and Lichuan_a4::Lichuan_a4 that can fail, in
\* the order they are made.
ConstructionSteps ==
    <<"modbus_new_rtu", "modbus_connect", "hal_init", "hal_malloc", "create_hal_pins">>

\* What a construction can end with: "ok" or the call that failed.
ConstructionOutcomes == {"ok"} \cup { ConstructionSteps[i] : i \in DOMAIN ConstructionSteps }

\* Modbus::Modbus frees the context when modbus_connect() fails and its
\* destructor does not run.  When the body of Lichuan_a4::Lichuan_a4 throws,
\* the member mb_ctx is destroyed (modbus_close, modbus_free) and
\* ~Lichuan_a4 does not run: hal_exit() is called only where the body calls
\* it, in front of the throw for create_hal_pins().
constructor_cleanup(outcome) ==
    CASE outcome = "modbus_new_rtu" -> NoCleanup
      [] outcome = "modbus_connect" -> [NoCleanup EXCEPT !.modbus_free = 1]
      [] outcome = "hal_init" -> [NoCleanup EXCEPT !.modbus_close = 1, !.modbus_free = 1]
      [] outcome = "hal_malloc" -> [NoCleanup EXCEPT !.modbus_close = 1, !.modbus_free = 1]
      [] outcome = "create_hal_pins" ->
            [modbus_close |-> 1, modbus_free |-> 1, hal_exit |-> 1]
      [] OTHER -> NoCleanup

\* Mutant of constructed: a failed hal_malloc is not noticed.
constructed_unchecked_malloc(outcome) == outcome \in {"ok", "hal_malloc"}

\* Does the constructor return (TRUE) or throw std::runtime_error (FALSE)?
constructed(outcome) == outcome = "ok"

\* One iteration of the loop over hal_names: devices.emplace_back() for the
\* next target returns or throws std::runtime_error, and then main() calls
\* exit(-1).
construct_device ==
    /\ main.pc = "construct"
    /\ \E outcome \in ConstructionOutcomes :
         IF constructed(outcome)
         THEN main' = [main EXCEPT !.devices = Append(@, Head(main.pending)),
                                   !.pending = Tail(@),
                                   !.hal_exit = Append(@, 0),
                                   !.modbus_close = Append(@, 0),
                                   !.failure = IF outcome = "ok" THEN @ ELSE outcome,
                                   !.pc = IF Tail(main.pending) = << >>
                                          THEN "loop_test" ELSE "construct"]
         ELSE main' = [main EXCEPT !.failure = outcome,
                                   !.ctor = constructor_cleanup(outcome),
                                   !.status = "failure",
                                   !.pc = "exit"]
    /\ UNCHANGED <<hal, error_code, pc, retries, data, cerr, drive, cyc, hist, env, mb, other, own>>

\* while (done == 0)
loop_test ==
    /\ main.pc = "loop_test"
    /\ main' = [main EXCEPT !.pc = IF main.done = 0 THEN "sleep" ELSE "return"]
    /\ UNCHANGED <<hal, error_code, pc, retries, data, cerr, drive, cyc, hist, env, mb, other, own>>

\* The body of the loop: sleep_for one second, then done = -1.  No device
\* is polled: polled, the devices read_data() was called on in this tick,
\* stays empty.
tick ==
    /\ main.pc = "sleep"
    /\ main' = [main EXCEPT !.polled = << >>,
                            !.ticks = @ + 1,
                            !.done = -1,
                            !.pc = "loop_test"]
    /\ UNCHANGED <<hal, error_code, pc, retries, data, cerr, drive, cyc, hist, env, mb, other, own>>

\* Mutant of destroy_device: the Modbus member is not destroyed.
destroy_device_keep_session ==
    /\ main.pc = "return"
    /\ LET i == main.destroyed + 1 IN
       main' = [main EXCEPT !.hal_exit[i] = @ + 1,
                            !.destroyed = i,
                            !.status = IF i = Len(main.devices) THEN "success" ELSE @,
                            !.pc = IF i = Len(main.devices) THEN "ended" ELSE @]
    /\ UNCHANGED <<hal, error_code, pc, retries, data, cerr, drive, cyc, hist, env, mb, other, own>>

\* return 0 destroys the list devices: for the next element ~Lichuan_a4
\* calls hal_exit() and then ~Modbus calls modbus_close() and modbus_free();
\* after the last element main() has returned.
destroy_device ==
    /\ main.pc = "return"
    /\ LET i == main.destroyed + 1 IN
       main' = [main EXCEPT !.hal_exit[i] = @ + 1,
                            !.modbus_close[i] = @ + 1,
                            !.destroyed = i,
                            !.status = IF i = Len(main.devices) THEN "success" ELSE @,
                            !.pc = IF i = Len(main.devices) THEN "ended" ELSE @]
    /\ UNCHANGED <<hal, error_code, pc, retries, data, cerr, drive, cyc, hist, env, mb, other, own>>

\* SIGINT or SIGTERM arrives: quit() sets done = 1.
quit ==
    /\ main.pc \notin {"return", "exit", "ended"}
    /\ main' = [main EXCEPT !.done = 1, !.signalled = TRUE]
    /\ UNCHANGED <<hal, error_code, pc, retries, data, cerr, drive, cyc, hist, env, mb, other, own>>

NextMain ==
    \/ construct_device
    \/ loop_test
    \/ tick
    \/ quit
    \/ destroy_device

SpecMain == InitMain /\ [][NextMain]_vars

(***************************************************************************)
(* main() of the single-device program, src/lichuan_a4.cpp: the tick loop  *)
(* with the period parameter, read_data() and the cleanup labels.  Here    *)
(* main holds the state of that main().  Durations are in microseconds.    *)
(***************************************************************************)
\* 0.001 s, the lower limit of haldata->period
period_min == 1000

\* 2.0 s, the upper limit of haldata->period
period_max == 2000000

\* A hal_float_t: a number (in microseconds), an infinity or a NaN.
Period(us) == [kind |-> "num", us |-> us]
PosInf == [kind |-> "inf", us |-> 0]
NegInf == [kind |-> "ninf", us |-> 0]
NaN == [kind |-> "nan", us |-> 0]

\* hal->period = 2.0 in set_haldata_defaults
period_default == Period(period_max)

\* The values another HAL user can write to the HAL_RW parameter
\* period-seconds.
Periods ==
    { Period(n) : n \in {-5, 0, 999, 1000, 1001, 500000, 2000000, 2000001, 60000000} }
    \cup {PosInf, NegInf, NaN}

\* haldata->period < c and haldata->period > c on doubles: every comparison
\* with a NaN is false.
less_than(p, c) == p.kind = "ninf" \/ (p.kind = "num" /\ p.us < c)
greater_than(p, c) == p.kind = "inf" \/ (p.kind = "num" /\ p.us > c)

\* if (period < 0.001) period = 0.001; if (period > 2.0) period = 2.0;
clamp_period(p) ==
    LET low == IF less_than(p, period_min) THEN Period(period_min) ELSE p
    IN  IF greater_than(low, period_max) THEN Period(period_max) ELSE low

\* duration_cast<nanoseconds>(duration<double>(p)) and sleep_for: the time
\* slept.  The conversion of a NaN to an integer is undefined; the builds
\* give 0 or the most negative value, and sleep_for returns at once for
\* both.
sleep_for(p) == IF p.kind = "num" THEN {p.us} ELSE {0, -1}

\* main() after hal_ready(), in front of its loop.
InitLegacy ==
    /\ InitDevice(EnvBurst, initialize_data)
    /\ main = [ pc |-> "loop_test", done |-> 0, signalled |-> FALSE, sig_at |-> "none",
                period |-> period_default, slept |-> << >>,
                retries |-> 0, modbus_errors |-> 0,
                begun_after |-> 0, polled_after |-> 0,
                reads_in_poll |-> 0, last_ok |-> FALSE, sig_reads |-> 0,
                hal_exit |-> 0, modbus_close |-> 0 ]

\* Another HAL user writes the parameter period-seconds.
setp_period ==
    /\ main.pc # "return"
    /\ \E v \in Periods \ {main.period} : main' = [main EXCEPT !.period = v]
    /\ UNCHANGED <<hal, error_code, pc, retries, data, cerr, drive, cyc, hist, env, mb, other, own>>

\* SIGINT or SIGTERM arrives: quit() sets done = 1.
legacy_quit ==
    /\ main.pc # "return"
    /\ main' = [main EXCEPT !.done = 1,
                            !.signalled = TRUE,
                            !.sig_at = IF main.signalled THEN @ ELSE main.pc,
                            !.sig_reads = IF main.signalled THEN @ ELSE main.reads_in_poll]
    /\ UNCHANGED <<hal, error_code, pc, retries, data, cerr, drive, cyc, hist, env, mb, other, own>>

\* while (done == 0)
legacy_loop_test ==
    /\ main.pc = "loop_test"
    /\ main' = [main EXCEPT !.pc = IF main.done = 0 THEN "clamp" ELSE "out_closeHAL"]
    /\ UNCHANGED <<hal, error_code, pc, retries, data, cerr, drive, cyc, hist, env, mb, other, own>>

\* The clamp of haldata->period and the call of sleep_for with it.
legacy_sleep_begin ==
    /\ main.pc = "clamp"
    /\ \E d \in sleep_for(clamp_period(main.period)) :
         main' = [main EXCEPT !.period = clamp_period(@),
                              !.slept = <<d>>,
                              !.begun_after = IF main.signalled THEN 1 ELSE 0,
                              !.pc = "sleep_for"]
    /\ UNCHANGED <<hal, error_code, pc, retries, data, cerr, drive, cyc, hist, env, mb, other, own>>

\* sleep_for returns; read_data() is called.
legacy_sleep_end ==
    /\ main.pc = "sleep_for"
    /\ main' = [main EXCEPT !.pc = "read_data", !.retries = 0, !.reads_in_poll = 0]
    /\ UNCHANGED <<hal, error_code, pc, retries, data, cerr, drive, cyc, hist, env, mb, other, own>>

\* Mutant of legacy_read_data: a pending shutdown request ends the retry
\* loop.
legacy_read_data_interrupted ==
    /\ main.pc = "read_data"
    /\ \E ok \in BOOLEAN :
         /\ ok \/ main.modbus_errors < MaxErrors
         /\ LET ends == ok \/ main.retries + 1 >= modbus_retries \/ main.done # 0 IN
            main' = [main EXCEPT
                       !.modbus_errors = IF ok THEN @ ELSE @ + 1,
                       !.retries = IF ends THEN 0 ELSE @ + 1,
                       !.reads_in_poll = @ + 1,
                       !.last_ok = ok,
                       !.polled_after = IF ends /\ main.signalled THEN 1 ELSE @,
                       !.pc = IF ends THEN "loop_test" ELSE "read_data"]
    /\ UNCHANGED <<hal, error_code, pc, retries, data, cerr, drive, cyc, hist, env, mb, other, own>>

\* One iteration of the retry loop of read_data(): the 13 registers are
\* read and stored, or the error is counted; after the read that succeeds
\* or the fifth that fails read_data() returns to the loop.
legacy_read_data ==
    /\ main.pc = "read_data"
    /\ \E ok \in BOOLEAN :
         /\ ok \/ main.modbus_errors < MaxErrors
         /\ LET ends == ok \/ main.retries + 1 >= modbus_retries IN
            main' = [main EXCEPT
                       !.modbus_errors = IF ok THEN @ ELSE @ + 1,
                       !.retries = IF ends THEN 0 ELSE @ + 1,
                       !.reads_in_poll = @ + 1,
                       !.last_ok = ok,
                       !.polled_after = IF ends /\ main.signalled THEN 1 ELSE @,
                       !.pc = IF ends THEN "loop_test" ELSE "read_data"]
    /\ UNCHANGED <<hal, error_code, pc, retries, data, cerr, drive, cyc, hist, env, mb, other, own>>

\* out_closeHAL: hal_exit(); out_close: modbus_close(), modbus_free();
\* return retval.
legacy_cleanup ==
    /\ main.pc = "out_closeHAL"
    /\ main' = [main EXCEPT !.hal_exit = @ + 1, !.modbus_close = @ + 1, !.pc = "return"]
    /\ UNCHANGED <<hal, error_code, pc, retries, data, cerr, drive, cyc, hist, env, mb, other, own>>

\* The statements of main() itself.
LegacyMain ==
    \/ legacy_loop_test
    \/ legacy_sleep_begin
    \/ legacy_sleep_end
    \/ legacy_read_data
    \/ legacy_cleanup

NextLegacy ==
    \/ setp_period
    \/ legacy_quit
    \/ legacy_loop_test
    \/ legacy_sleep_begin
    \/ legacy_sleep_end
    \/ legacy_read_data
    \/ legacy_cleanup

SpecLegacy == InitLegacy /\ [][NextLegacy]_vars

\* main() runs on one thread, sleep_for and the block reads return: main()
\* goes on until it has returned.
SpecLegacyFair == SpecLegacy /\ WF_vars(LegacyMain)

(***************************************************************************)
(* Two devices in the list of main(): between two cycles the loop over the *)
(* devices moves on to the other one.  The variables of the poll cycle     *)
(* belong to the device whose read_data() runs or ran last; other keeps    *)
(* the members of the device that waits.                                   *)
(***************************************************************************)
\* Few transport failures, so that the states of two devices can be
\* enumerated together.
EnvPair == [EnvBurst EXCEPT !.budget = 1]

\* for (auto& device : devices): the next read_data() is called on the
\* other device.
switch_device ==
    /\ pc = "idle"
    /\ hal' = other.hal
    /\ error_code' = other.error_code
    /\ drive' = other.drive
    /\ cerr' = other.cerr
    /\ cyc' = other.cyc
    /\ hist' = other.hist
    /\ other' = [ hal |-> hal, error_code |-> error_code, drive |-> drive,
                  cerr |-> cerr, cyc |-> cyc, hist |-> hist ]
    /\ UNCHANGED <<pc, retries, data, env, main, mb, own>>

NextPair ==
    \/ Next
    \/ switch_device

InitPair == InitEngine(EnvPair, initialize_data)

SpecPair == InitPair /\ [][NextPair]_vars

(***************************************************************************)
(* The special member functions of Modbus: construction, move              *)
(* construction, move assignment and destruction of objects that own a     *)
(* modbus_t session.                                                       *)
(***************************************************************************)
\* A counter of a session, capped so that a second call stays visible.
Counted(n) == IF n < 2 THEN n + 1 ELSE n

\* Modbus::Modbus(device, ...): modbus_new_rtu() creates a session or
\* returns nullptr; modbus_connect() opens it or fails, and then the
\* session is freed and the constructor throws.
Modbus_construct ==
    /\ \E w \in Wrappers, outcome \in {"ok", "modbus_new_rtu", "modbus_connect"} :
         /\ ~ own.alive[w]
         /\ own.created < MaxSessions
         /\ LET x == own.created + 1 IN
            own' = CASE outcome = "modbus_new_rtu" -> own
                     [] outcome = "modbus_connect" ->
                          [own EXCEPT !.created = x,
                                      !.modbus_free[x] = Counted(@)]
                     [] outcome = "ok" ->
                          [own EXCEPT !.created = x,
                                      !.connected[x] = TRUE,
                                      !.alive[w] = TRUE,
                                      !.obj[w] = x]
    /\ UNCHANGED <<hal, error_code, pc, retries, data, cerr, drive, cyc, hist, env, main, mb, other>>

\* Modbus(Modbus&& other): mb_ctx{std::exchange(other.mb_ctx, nullptr)}
Modbus_move_construct ==
    /\ \E w \in Wrappers, o \in Wrappers :
         /\ ~ own.alive[w]
         /\ own.alive[o]
         /\ own' = [own EXCEPT !.alive[w] = TRUE,
                               !.obj = [@ EXCEPT ![o] = nullptr, ![w] = own.obj[o]]]
    /\ UNCHANGED <<hal, error_code, pc, retries, data, cerr, drive, cyc, hist, env, main, mb, other>>

\* Modbus::operator=(Modbus&& other):
\* mb_ctx = std::exchange(other.mb_ctx, nullptr).  obj is the member of
\* every object afterwards, released the session that was closed and freed.
move_assign(obj, w, o) ==
    [ obj |-> [[obj EXCEPT ![o] = nullptr] EXCEPT ![w] = obj[o]],
      released |-> nullptr ]

Modbus_move_assign ==
    /\ \E w \in Wrappers, o \in Wrappers :
         /\ own.alive[w]
         /\ own.alive[o]
         /\ LET r == move_assign(own.obj, w, o) IN
            own' = IF r.released = nullptr
                   THEN [own EXCEPT !.obj = r.obj]
                   ELSE [own EXCEPT !.obj = r.obj,
                                    !.modbus_close[r.released] = Counted(@),
                                    !.modbus_free[r.released] = Counted(@)]
    /\ UNCHANGED <<hal, error_code, pc, retries, data, cerr, drive, cyc, hist, env, main, mb, other>>

\* Modbus::~Modbus: if (mb_ctx) { modbus_close(mb_ctx); modbus_free(mb_ctx); }
Modbus_destroy ==
    /\ \E w \in Wrappers :
         /\ own.alive[w]
         /\ LET x == own.obj[w] IN
            own' = IF x = nullptr
                   THEN [own EXCEPT !.alive[w] = FALSE]
                   ELSE [own EXCEPT !.alive[w] = FALSE,
                                    !.obj[w] = nullptr,
                                    !.modbus_close[x] = Counted(@),
                                    !.modbus_free[x] = Counted(@)]
    /\ UNCHANGED <<hal, error_code, pc, retries, data, cerr, drive, cyc, hist, env, main, mb, other>>

NextOwner ==
    \/ Modbus_construct
    \/ Modbus_move_construct
    \/ Modbus_move_assign
    \/ Modbus_destroy

InitOwner == InitEngine(EnvBurst, initialize_data)

SpecOwner == InitOwner /\ [][NextOwner]_vars

(***************************************************************************)
(* The member functions of Modbus, called with any arguments.              *)
(***************************************************************************)
\* Register addresses and counts a caller can pass: the counts around the
\* limits 1 and MODBUS_MAX_READ_REGISTERS.
Addresses == {speed_start_reg, current_error_code_reg}
Counts == {-1, 0, 1, 2, 3, MODBUS_MAX_READ_REGISTERS, MODBUS_MAX_READ_REGISTERS + 1}

\* What modbus_read_registers() can return for count registers: -1, any
\* short count, or count.
ReadResults(count) == {-1} \cup { n \in {0, 1, 2, count - 1, count} : n >= 0 /\ n <= count }

\* What modbus_write_register() returns: 1 when the register was written,
\* -1 on an error or a timeout.
WriteResults == {1, -1}

\* The words the transport has stored for a read of count registers.
Words(count, w) == [i \in 1..count |-> IF i = 1 THEN w ELSE i]

call_read_registers ==
    /\ pc = "idle"
    /\ \E address \in Addresses, count \in Counts, w \in {0, 65535} :
         \E retval \in (IF issues_request(count) THEN ReadResults(count) ELSE {0}) :
            LET regs == IF issues_request(count) /\ retval > 0
                        THEN Words(retval, w) ELSE << >> IN
            mb' = [ op |-> "read", address |-> address, count |-> count, value |-> 0,
                    retval |-> retval, regs |-> regs,
                    issued |-> issues_request(count),
                    result |-> read_registers(address, count, retval, regs),
                    returned |-> FALSE ]
    /\ UNCHANGED <<hal, error_code, pc, retries, data, cerr, drive, cyc, hist, env, main, other, own>>

call_write_register ==
    /\ pc = "idle"
    /\ \E address \in Addresses, value \in {0, 1, 65535}, retval \in WriteResults :
         mb' = [ op |-> "write", address |-> address, count |-> 1, value |-> value,
                 retval |-> retval, regs |-> << >>, issued |-> TRUE, result |-> << >>,
                 returned |-> write_register(address, value, retval) ]
    /\ UNCHANGED <<hal, error_code, pc, retries, data, cerr, drive, cyc, hist, env, main, other, own>>

NextModbus ==
    \/ call_read_registers
    \/ call_write_register

InitModbus == InitEngine(EnvBurst, initialize_data)

SpecModbus == InitModbus /\ [][NextModbus]_vars

(***************************************************************************)
(* Type invariant.                                                         *)
(***************************************************************************)
TypeOK ==
    /\ pc \in {"idle", "update_internal_state", "print_error_message"} \cup Groups
    /\ retries \in 0..(modbus_retries - 1)
    /\ error_code \in { d.code : d \in env.drives } \cup {no_error}
    /\ hal.error_code \in { d.code : d \in env.drives } \cup {no_error}
    /\ hal.modbus_errors \in [hi : 0..(Half - 1), lo : 0..(Half - 1)]
    /\ drive \in env.drives
    /\ Len(cerr) <= 1

\* Lichuan_a4::get_current_error
get_current_error == error_code

\* A poll cycle has run to its end.
CycleDone == pc = "idle" /\ cyc.polled # << >>


(***************************************************************************)
(* Properties of the poll cycle.                                           *)
(***************************************************************************)
NoDuplicates(s) == \A i, j \in DOMAIN s : i # j => s[i] # s[j]

\* C1: retry ceiling.  A group gets at most 5 block reads in a cycle and is
\* polled in one run of attempts only; while its loop runs every read so far
\* has failed; when its loop has ended, either its last read returned the
\* requested count, it was read number k <= 5 and the k - 1 reads before it
\* failed, or all of exactly 5 reads failed.
RetryCeiling ==
    LET g == Last(cyc.polled) IN
    /\ cyc.reads <= modbus_retries
    /\ NoDuplicates(cyc.polled)
    /\ g # "none" =>
         IF pc = g
         THEN cyc.fails = cyc.reads /\ cyc.reads < modbus_retries
         ELSE IF Len(data) = reg_count(g)
              THEN cyc.reads \in 1..modbus_retries /\ cyc.fails = cyc.reads - 1
              ELSE cyc.reads = modbus_retries /\ cyc.fails = modbus_retries

\* The error-code read succeeded on its 5th attempt.
RetryCeilingWitness ==
    /\ pc = "print_error_message"
    /\ Last(cyc.polled) = "read_error_code"
    /\ Len(data) = single_register_count
    /\ cyc.reads = 5
    /\ cyc.fails = 4

\* C2: after a cycle the failure counter is the counter before the cycle plus
\* the number of block reads of the cycle that did not return the requested
\* count.
FailureCounting ==
    CycleDone => hal.modbus_errors = u32_add(cyc.errors_before, cyc.failed_attempts)

\* A cycle with 5 failed reads that started with a counter already at 1.
FailureCountingWitness ==
    /\ CycleDone
    /\ cyc.failed_attempts = 5
    /\ cyc.errors_before = u32(1)
    /\ hal.modbus_errors = u32(6)

speed_fields(h) == <<h.commanded_speed, h.feedback_speed, h.deviation_speed>>
torque_fields(h) == <<h.commanded_torque, h.feedback_torque, h.deviation_torque>>
digital_fields(h) ==
    << <<h.digital_in0, h.digital_in1, h.digital_in2, h.digital_in3,
         h.digital_in4, h.digital_in5, h.digital_in6, h.digital_in7>>,
       <<h.digital_out0, h.digital_out1, h.digital_out2,
         h.digital_out3, h.digital_out4, h.digital_out5>> >>

\* The output fields of group g.
Fields(g, h) ==
    CASE g = "read_speed_data" -> speed_fields(h)
      [] g = "read_torque_data" -> torque_fields(h)
      [] g = "read_digital_IO" -> digital_fields(h)
      [] g = "read_error_code" -> <<h.error_code>>

\* The output fields of group g as one read d of the requested size defines
\* them.
FromRead(g, d) ==
    CASE g = "read_speed_data" -> <<Dec(int16(d[1]), 0), Dec(int16(d[2]), 0), Dec(int16(d[3]), 0)>>
      [] g = "read_torque_data" -> <<DivTen(d[1]), DivTen(d[2]), DivTen(d[3])>>
      [] g = "read_digital_IO" ->
            << [i \in 1..8 |-> bitset8(d[1], i - 1)], [i \in 1..6 |-> bitset8(d[2], i - 1)] >>
      [] g = "read_error_code" -> <<d[1]>>

\* C3: block atomicity.  Every step of a cycle either leaves all output
\* fields of a group as they were, or is a read of that group that returned
\* the requested count and sets every field of the group from that read; a
\* read that did not return the requested count changes no field.
BlockAtomicity ==
    [][ \A g \in Groups :
          IF pc = g /\ Len(data') = reg_count(g)
          THEN Fields(g, hal') = FromRead(g, data')
          ELSE Fields(g, hal') = Fields(g, hal) ]_vars

\* The speed block was replaced as a whole by a read that followed a failed
\* one.
BlockAtomicityWitness ==
    /\ pc = "read_torque_data"
    /\ cyc.polled = <<"read_speed_data">>
    /\ cyc.fails >= 1
    /\ data = <<65535, 32768, 32767>>
    /\ speed_fields(hal) = <<Dec(-1, 0), Dec(-32768, 0), Dec(32767, 0)>>

\* C4: in every cycle the speed, torque and digital I/O groups are each
\* read at least once, in that order, whatever the earlier groups returned.
NoAbort ==
    CycleDone =>
        /\ Len(cyc.polled) >= 3
        /\ SubSeq(cyc.polled, 1, 3) = <<"read_speed_data", "read_torque_data", "read_digital_IO">>

\* All 5 speed reads failed and the torque group was read next.
NoAbortWitness ==
    /\ cyc.polled = <<"read_speed_data", "read_torque_data">>
    /\ cyc.failed_attempts = 5
    /\ cyc.reads = 1
    /\ cyc.fails = 0
    /\ speed_fields(hal) = speed_fields(initialize_data)

\* C5: alarm idempotence.  Over the cycles in which the drive holds its alarm
\* output set with one non-zero code, exactly one report is printed, in the
\* first cycle whose error-code read succeeds, and it is a report of that
\* code: after each such cycle the number of reports of the episode is 1 if an
\* error-code read of the episode has succeeded and 0 otherwise.
AlarmIdempotence ==
    (CycleDone /\ InEpisode(drive)) =>
        /\ hist.ep_reports = (IF hist.ep_read_ok THEN 1 ELSE 0)
        /\ \A i \in DOMAIN cerr : cerr[i] = drive.code

\* C6: alarm re-trigger.  If the previous cycle decoded the alarm bit false
\* and this cycle decoded it true and read a non-zero code c, this cycle
\* printed a report of c.
AlarmRetrigger ==
    ( /\ CycleDone
      /\ hist.prev_alarm = "off"
      /\ cyc.dio_decoded /\ hal.digital_out1
      /\ cyc.code_read /\ hal.error_code # no_error )
    => cerr = <<hal.error_code>>

\* The re-triggered code is the one reported last, in a cleared episode.
AlarmRetriggerWitness ==
    /\ CycleDone
    /\ hist.prev_alarm = "off"
    /\ cyc.dio_decoded /\ hal.digital_out1
    /\ cyc.code_read /\ hal.error_code = 7
    /\ hist.last_report = 7
    /\ cerr = <<7>>

\* C7: a cycle with the alarm bit set whose error-code reads all failed
\* leaves the remembered code as it was and prints no report.
FailedCodeRead ==
    (CycleDone /\ cyc.alarm_at_step = "on" /\ ~cyc.code_read) =>
        /\ error_code = cyc.error_code_before
        /\ cerr = << >>

\* C8: a cycle whose alarm step finds the alarm bit false ends with the
\* remembered code no_error, has issued no error-code read and has printed no
\* report.
ClearOnInactive ==
    (CycleDone /\ cyc.alarm_at_step = "off") =>
        /\ error_code = no_error
        /\ \A i \in DOMAIN cyc.polled : cyc.polled[i] # "read_error_code"
        /\ cerr = << >>

\* A remembered code was cleared.
ClearOnInactiveWitness ==
    /\ CycleDone
    /\ cyc.alarm_at_step = "off"
    /\ cyc.error_code_before = 12
    /\ error_code = no_error

\* C9: the alarm step of a cycle acts on an alarm bit decoded in that cycle,
\* and print_error_message on a code read in that cycle.
FreshInputs ==
    CycleDone =>
        /\ cyc.dio_decoded
        /\ cyc.alarm_at_step = "on" => cyc.code_read

\* C10: a report of the code that was reported last is printed only after a
\* cycle that ended with another remembered code (no_error or another code);
\* and a cycle prints at most one report.
OncePerTransition ==
    CycleDone =>
        /\ Len(cerr) <= 1
        /\ (cerr # << >> /\ cerr[1] = hist.last_report) => hist.differed

\* Code 7 is reported a second time, after the remembered code had changed.
OncePerTransitionWitness ==
    /\ CycleDone
    /\ cerr = <<7>>
    /\ hist.last_report = 7
    /\ hist.differed

\* C11: when the alarm bit is true and the code read in the cycle is 0, the
\* cycle prints no report and the remembered code becomes 0; when the cycle
\* after such a cycle reads a non-zero code c with the alarm bit still true,
\* it prints the report for c and remembers c.
ZeroCodeRemembered ==
    (CycleDone /\ cyc.alarm_at_step = "on" /\ cyc.code_read) =>
        /\ hal.error_code = no_error => (cerr = << >> /\ error_code = no_error)
        /\ (hist.prev_zero /\ hal.error_code # no_error) =>
               (cerr = <<hal.error_code>> /\ error_code = hal.error_code)

\* Code 12 was remembered, a cycle read 0 with the alarm on, and the next
\* cycle read 12 again with the alarm on and reported it.
ZeroCodeRememberedWitness ==
    /\ CycleDone
    /\ hist.prev_zero
    /\ hist.last_report = 12
    /\ cyc.alarm_at_step = "on"
    /\ cyc.code_read
    /\ cerr = <<12>>

\* C12: a non-zero code outside the enumeration is remembered when it is read
\* with the alarm bit true, and it is reported exactly once in its episode:
\* once it has been read in a cycle that decoded the alarm bit, the episode
\* has one report of it.
UnknownCodeOncePerEpisode ==
    (/\ CycleDone
     /\ InEpisode(drive)
     /\ drive.code \notin KnownCodes
     /\ cyc.dio_decoded
     /\ cyc.code_read) =>
        /\ error_code = drive.code
        /\ hist.ep_own = 1

\* A two's-complement reading of the 16-bit word w: the value in
\* -32768..32767 that is congruent to w modulo 65536.
TwosComplement(w, v) == v \in -32768..32767 /\ (v - w) % Half = 0

\* read_speed_data has just decoded the block in data.
SpeedDecoded == pc = "read_torque_data" /\ retries = 0 /\ Len(data) = speed_reg_count

\* C13: each speed pin holds the two's-complement signed reading of its raw
\* word; the word 0xFFFF gives -1.
SpeedSigned ==
    SpeedDecoded =>
        /\ TwosComplement(data[1], hal.commanded_speed.whole)
        /\ TwosComplement(data[2], hal.feedback_speed.whole)
        /\ TwosComplement(data[3], hal.deviation_speed.whole)
        /\ hal.commanded_speed.frac = 0
        /\ hal.feedback_speed.frac = 0
        /\ hal.deviation_speed.frac = 0
        /\ data[3] = 65535 => hal.deviation_speed = Dec(-1, 0)

\* The words 0x8000, 0x8001, 0xFFFF were decoded as -32768, -32767, -1.
SpeedSignedWitness ==
    /\ SpeedDecoded
    /\ data = <<32768, 32769, 65535>>
    /\ hal.commanded_speed = Dec(-32768, 0)
    /\ hal.feedback_speed = Dec(-32767, 0)
    /\ hal.deviation_speed = Dec(-1, 0)

\* The decimal v with one fractional digit is the unsigned word w over ten.
TenthOf(w, v) == v.whole >= 0 /\ v.frac \in 0..9 /\ 10 * v.whole + v.frac = w

\* read_torque_data has just decoded the block in data.
TorqueDecoded == pc = "read_digital_IO" /\ retries = 0 /\ Len(data) = torque_reg_count

\* C14: each torque pin holds its raw word, read as unsigned, divided by
\* ten; words of 32768 and more do not give negative values; the words
\* 55, 50, 5 give 5.5, 5.0, 0.5.
TorqueUnsignedTenths ==
    TorqueDecoded =>
        /\ TenthOf(data[1], hal.commanded_torque)
        /\ TenthOf(data[2], hal.feedback_torque)
        /\ TenthOf(data[3], hal.deviation_torque)
        /\ data = <<55, 50, 5>> =>
              /\ hal.commanded_torque = Dec(5, 5)
              /\ hal.feedback_torque = Dec(5, 0)
              /\ hal.deviation_torque = Dec(0, 5)

\* The words 32767, 32768, 65535 were decoded as 3276.7, 3276.8, 6553.5.
TorqueUnsignedTenthsWitness ==
    /\ TorqueDecoded
    /\ data = <<32767, 32768, 65535>>
    /\ hal.commanded_torque = Dec(3276, 7)
    /\ hal.feedback_torque = Dec(3276, 8)
    /\ hal.deviation_torque = Dec(6553, 5)

\* Bit i of the word w, counted from the least significant bit.
BitOf(w, i) == (w % Pow2(i + 1)) >= Pow2(i)

\* read_digital_IO has just decoded the block in data.
DigitalDecoded == pc = "update_internal_state" /\ Len(data) = digital_IO_reg_count

\* C15: input pin i is bit i of the first register for i in 0..7, output
\* pin i is bit i of the second register for i in 0..5; a first register
\* with bits in 8..15 only sets no input pin, a second register with bits in
\* 6..15 only sets no output pin.
DigitalBitMapping ==
    DigitalDecoded =>
        /\ hal.digital_in0 = BitOf(data[1], 0)
        /\ hal.digital_in1 = BitOf(data[1], 1)
        /\ hal.digital_in2 = BitOf(data[1], 2)
        /\ hal.digital_in3 = BitOf(data[1], 3)
        /\ hal.digital_in4 = BitOf(data[1], 4)
        /\ hal.digital_in5 = BitOf(data[1], 5)
        /\ hal.digital_in6 = BitOf(data[1], 6)
        /\ hal.digital_in7 = BitOf(data[1], 7)
        /\ hal.digital_out0 = BitOf(data[2], 0)
        /\ hal.digital_out1 = BitOf(data[2], 1)
        /\ hal.digital_out2 = BitOf(data[2], 2)
        /\ hal.digital_out3 = BitOf(data[2], 3)
        /\ hal.digital_out4 = BitOf(data[2], 4)
        /\ hal.digital_out5 = BitOf(data[2], 5)
        /\ data[1] % 256 = 0 =>
              ~ \E b \in { hal.digital_in0, hal.digital_in1, hal.digital_in2, hal.digital_in3,
                           hal.digital_in4, hal.digital_in5, hal.digital_in6, hal.digital_in7 } : b
        /\ data[2] % 64 = 0 =>
              ~ \E b \in { hal.digital_out0, hal.digital_out1, hal.digital_out2,
                           hal.digital_out3, hal.digital_out4, hal.digital_out5 } : b

\* The words 261 = 0x105 and 193 = 0xC1 were decoded: inputs 0 and 2 and
\* output 0 are set, bit 8 of the first and bits 6, 7 of the second show on
\* no pin.
DigitalBitMappingWitness ==
    /\ DigitalDecoded
    /\ data = <<261, 193>>
    /\ hal.digital_in0 /\ hal.digital_in2
    /\ ~ hal.digital_in1 /\ ~ hal.digital_in3 /\ ~ hal.digital_in4
    /\ ~ hal.digital_in5 /\ ~ hal.digital_in6 /\ ~ hal.digital_in7
    /\ hal.digital_out0
    /\ ~ hal.digital_out1 /\ ~ hal.digital_out2 /\ ~ hal.digital_out3
    /\ ~ hal.digital_out4 /\ ~ hal.digital_out5

\* The codes the enumeration gives a message of their own.
EnumeratedCodes == (1..6) \cup (12..16) \cup {18, 21, 24, 26, 27, 29, 36, 38, 39}

\* C16: the message print_error_message looked up for the code it remembered
\* is empty for code 0 and for no other code; for an enumerated code it is
\* not empty, not the generic message and not the message of another
\* enumerated code; for every other code it is the generic message.
ErrorMessageTable ==
    (CycleDone /\ cyc.looked_up) =>
        /\ cyc.message = "" <=> error_code = 0
        /\ error_code \in EnumeratedCodes =>
              /\ cyc.message \notin {"", "unknown error code"}
              /\ \A c \in EnumeratedCodes \ {error_code} : get_error_message(c) # cyc.message
        /\ error_code \notin EnumeratedCodes \cup {0} => cyc.message = "unknown error code"

\* Code 65535 was looked up and got the generic message.
ErrorMessageTableWitness ==
    /\ CycleDone
    /\ cyc.looked_up
    /\ error_code = 65535
    /\ cyc.message = "unknown error code"
    /\ hist.last_report = analog_command_overvoltage

\* C17, as stated: the failure counter is the number of (cycle, group) pairs
\* since construction in which every attempt of the group failed.
ExhaustedEventCount == hal.modbus_errors = u32(cyc.total_exhausted)

\* C17, amended: the failure counter is the number of block reads since
\* construction that did not return the requested count; a group that gives
\* up has added modbus_retries = 5 to it.
FailedAttemptCount ==
    /\ hal.modbus_errors = u32(cyc.total_failed)
    /\ cyc.total_failed >= modbus_retries * cyc.total_exhausted

\* Two groups gave up and one more read failed: the counter is 11.
FailedAttemptCountWitness ==
    /\ CycleDone
    /\ cyc.total_exhausted = 2
    /\ cyc.total_failed = 11
    /\ hal.modbus_errors = u32(11)

\* x < y on hal_u32_t values
u32_less(x, y) == x.hi < y.hi \/ (x.hi = y.hi /\ x.lo < y.lo)

\* C18: no step of a device makes its failure counter smaller, however many
\* read attempts have failed.
CounterNeverDecreases == [][~ u32_less(hal.modbus_errors', hal.modbus_errors)]_vars

\* The number of block reads of a cycle is within the claimed limits.
CycleReadBounds ==
    /\ cyc.block_reads <= 4 * modbus_retries
    /\ cyc.alarm_at_step = "off" => cyc.block_reads <= 3 * modbus_retries
    /\ CycleDone =>
          /\ cyc.block_reads >= 3
          /\ cyc.alarm_at_step \in {"on", "off"}

\* C19: whatever reads the transport fails, a cycle that was started comes to
\* its end, the return of read_data() to its caller, after at least 3 and at
\* most 20 block reads, at most 15 when the alarm bit is false at the alarm
\* step.
CycleCompletes == []CycleReadBounds /\ ((pc # "idle") ~> CycleDone)

\* A cycle of 20 block reads: 19 failed and the last read, of the error
\* code, succeeded.
CycleCompletesWitness ==
    /\ CycleDone
    /\ cyc.block_reads = 20
    /\ cyc.failed_attempts = 19
    /\ cyc.code_read

\* C20: a tick that has ended has run one poll cycle on every constructed
\* device, in the order of construction, and main() leaves its loop only
\* after a shutdown request.
TickPollsEveryDevice ==
    /\ (main.pc = "loop_test" /\ main.ticks > 0) => main.polled = main.devices
    /\ main.pc = "return" => main.signalled

\* C21: every sleep of the tick loop lasts at least 1 ms and at most 2 s,
\* whatever the period parameter holds.
SleptWithinRange ==
    main.slept # << >> => (main.slept[1] >= period_min /\ main.slept[1] <= period_max)

\* The loop has been left.
LoopLeft == main.pc \in {"out_closeHAL", "return"}

\* A request that arrived during the sleep or during the poll of a tick lets
\* that tick end as any other: its poll ends with a good read or after its
\* fifth read; no further tick is begun; the loop is left at the test that
\* follows.
TickCompleted ==
    /\ (main.pc \in {"loop_test", "out_closeHAL", "return"} /\ main.reads_in_poll > 0) =>
          (main.last_ok \/ main.reads_in_poll = modbus_retries)
    /\ (main.signalled /\ main.sig_at \in {"sleep_for", "read_data"}) =>
          /\ main.begun_after = 0
          /\ LoopLeft => main.polled_after = 1
    /\ (main.signalled /\ main.sig_at = "loop_test") =>
          /\ main.begun_after = 0
          /\ main.polled_after = 0
    /\ LoopLeft => main.signalled

\* C22: a shutdown request does not interrupt the tick in progress, the loop
\* is left at its next test, and once the request is made main() leaves the
\* loop.
ShutdownAtTickBoundary == []TickCompleted /\ (main.signalled ~> LoopLeft)

\* The request arrived after the second failed read of a poll; the poll
\* went on to its fifth read, and main() then left the loop and returned.
ShutdownAtTickBoundaryWitness ==
    /\ main.pc = "return"
    /\ main.sig_at = "read_data"
    /\ main.sig_reads = 2
    /\ main.reads_in_poll = modbus_retries
    /\ ~ main.last_ok
    /\ main.polled_after = 1

\* C23: when main() has left its loop and returned, every constructed device
\* has had hal_exit() called once and its session closed and freed once; no
\* device is torn down twice, and none before the loop is left.
TeardownOnShutdown ==
    /\ \A i \in DOMAIN main.devices :
          /\ main.hal_exit[i] <= 1
          /\ main.modbus_close[i] <= 1
          /\ main.pc \notin {"return", "ended"} =>
                (main.hal_exit[i] = 0 /\ main.modbus_close[i] = 0)
    /\ main.pc = "ended" =>
          /\ DOMAIN main.hal_exit = DOMAIN main.devices
          /\ DOMAIN main.modbus_close = DOMAIN main.devices
          /\ \A i \in DOMAIN main.devices :
                main.hal_exit[i] = 1 /\ main.modbus_close[i] = 1

\* Three devices were constructed, a shutdown was requested and main() has
\* returned with all three torn down.
TeardownOnShutdownWitness ==
    /\ main.pc = "ended"
    /\ main.signalled
    /\ Len(main.devices) = 3
    /\ main.hal_exit = <<1, 1, 1>>
    /\ main.modbus_close = <<1, 1, 1>>

\* C24: when a call of the construction fails (the session cannot be created
\* or connected, or hal_init, hal_malloc or the pin registration fails), the
\* device is not added to the list, the process exits with a failure status,
\* and no tick is run and no device polled; the loop is entered only with
\* every device constructed and no call failed.
ConstructionFailureFatal ==
    /\ main.failure \in ConstructionOutcomes \ {"ok"} =>
          /\ main.pc = "exit"
          /\ main.status = "failure"
          /\ main.ticks = 0
          /\ main.polled = << >>
          /\ main.pending # << >>
          /\ Len(main.devices) + Len(main.pending) = main.names
    /\ main.pc \in {"loop_test", "sleep", "return", "ended"} =>
          /\ main.failure = "none"
          /\ Len(main.devices) = main.names
    /\ main.pc = "exit" => main.failure # "none"

\* The third device could not connect its session: two devices are in the
\* list and the process has exited with a failure status.
ConstructionFailureFatalWitness ==
    /\ main.pc = "exit"
    /\ main.failure = "modbus_connect"
    /\ main.status = "failure"
    /\ Len(main.devices) = 2
    /\ Len(main.pending) = 1

\* C25: write_register returns true when the register was written and false
\* when the write failed.
WriteReportsFailure ==
    mb.op = "write" => (mb.returned <=> mb.retval = 1)

\* C26: read_registers is all-or-nothing: it returns exactly count values
\* when the transport returned exactly count registers and an empty result
\* otherwise; for a count below 1 or above the protocol maximum it returns
\* empty without a transport request; the result never has another size.
ReadAllOrNothing ==
    mb.op = "read" =>
        /\ Len(mb.result) \in {0, mb.count}
        /\ (mb.issued /\ mb.retval = mb.count)
               => (Len(mb.result) = mb.count /\ mb.result = mb.regs)
        /\ ~ (mb.issued /\ mb.retval = mb.count) => mb.result = << >>
        /\ (mb.count < 1 \/ mb.count > MODBUS_MAX_READ_REGISTERS)
               => (~ mb.issued /\ mb.result = << >>)

ReadAllOrNothingWitness ==
    /\ mb.op = "read" /\ mb.issued
    /\ mb.retval = mb.count
    /\ Len(mb.result) = MODBUS_MAX_READ_REGISTERS

\* C27: every constructed device has a station address in 1..31.
TargetsInRange ==
    \A i \in 1..Len(main.devices) : main.devices[i] \in 1..31

\* C28: every step of a poll cycle of one device leaves the other device's
\* snapshot, failure counter and alarm state (remembered code) as they are,
\* however the cycles of the two devices follow each other.
DeviceIsolation ==
    [][ (pc # "idle" \/ pc' # "idle") => other' = other ]_vars

\* The waiting device has counted a failure and remembers code 7; the
\* running device has counted none, remembers no code and is in its cycle.
DeviceIsolationWitness ==
    /\ pc = "read_digital_IO"
    /\ other.error_code = 7
    /\ other.hal.modbus_errors = u32(1)
    /\ error_code = no_error
    /\ hal.modbus_errors = u32(0)

\* C29: the error-code reads of a cycle come after the last digital I/O
\* read, with the speed, torque and digital I/O groups all polled before
\* them and none after them, and only when the alarm bit is true at the
\* alarm step; the group gets at most 5 reads, stops at the first one that
\* returns its register, and every failed read adds one to the counter.
ErrorCodeReadOrder ==
    LET issued == \E i \in DOMAIN cyc.polled : cyc.polled[i] = "read_error_code" IN
    /\ (pc = "read_error_code" \/ issued) =>
          /\ Len(cyc.polled) >= 3
          /\ SubSeq(cyc.polled, 1, 3) =
                <<"read_speed_data", "read_torque_data", "read_digital_IO">>
          /\ cyc.alarm_at_step = "on"
          /\ hal.digital_out1
    /\ issued =>
          /\ cyc.polled = <<"read_speed_data", "read_torque_data", "read_digital_IO",
                            "read_error_code">>
          /\ pc \in {"read_error_code", "print_error_message", "idle"}
          /\ cyc.reads <= modbus_retries
          /\ IF pc = "read_error_code"
             THEN cyc.fails = cyc.reads /\ retries = cyc.reads /\ cyc.reads < modbus_retries
             ELSE IF cyc.code_read
                  THEN cyc.fails = cyc.reads - 1
                  ELSE cyc.fails = modbus_retries /\ cyc.reads = modbus_retries
          /\ hal.modbus_errors = u32_add(cyc.errors_before, cyc.failed_attempts)

\* The digital I/O read succeeded on its 5th attempt with the alarm bit set
\* and all 5 error-code reads failed: 9 failures were counted.
ErrorCodeReadOrderWitness ==
    /\ pc = "print_error_message"
    /\ Last(cyc.polled) = "read_error_code"
    /\ cyc.reads = 5
    /\ cyc.fails = 5
    /\ cyc.failed_attempts = 9
    /\ hal.modbus_errors = u32_add(cyc.errors_before, 9)

\* C30: a report is printed only in a cycle whose alarm step found the alarm
\* bit true, a cycle prints at most one report, and the code of a report
\* has a non-empty message and is the remembered code when the cycle ends.
ReportDiscipline ==
    /\ Len(cerr) <= 1
    /\ cerr # << >> =>
          /\ CycleDone
          /\ cyc.alarm_at_step = "on"
          /\ get_error_message(cerr[1]) # ""
          /\ cyc.message = get_error_message(cerr[1])
          /\ error_code = cerr[1]

\* A cycle that failed its error-code reads has reported code 7, which an
\* earlier cycle had read.
ReportDisciplineWitness ==
    /\ CycleDone
    /\ cerr = <<7>>
    /\ ~ cyc.code_read
    /\ cyc.alarm_at_step = "on"
    /\ error_code = 7

\* C31: when a poll cycle has ended, the remembered code is no_error if the
\* alarm output bit is false, and is the value of the error-code pin if the
\* bit is true, whether or not the cycle's error-code read succeeded.
EndOfCycleCode ==
    CycleDone =>
        IF hal.digital_out1
        THEN cyc.alarm_at_step = "on" /\ get_current_error = hal.error_code
        ELSE cyc.alarm_at_step = "off" /\ get_current_error = no_error

\* A cycle with the alarm bit set failed all its error-code reads; the pin
\* still holds code 7 of an earlier read and 7 is the remembered code.
EndOfCycleCodeWitness ==
    /\ CycleDone
    /\ hal.digital_out1
    /\ Last(cyc.polled) = "read_error_code"
    /\ ~ cyc.code_read
    /\ cyc.error_code_before = no_error
    /\ hal.error_code = 7
    /\ get_current_error = 7

\* C32: the error-code pin changes only in a step of read_error_code whose
\* read returned its one register, and then to that register; the alarm
\* step of a cycle with the alarm bit false sets the remembered code to
\* no_error and leaves the pin as it is.
ErrorCodePinWrittenByRead ==
    [][ /\ hal.error_code' # hal.error_code =>
             /\ pc = "read_error_code"
             /\ Len(data') = single_register_count
             /\ hal.error_code' = data'[1]
        /\ (pc = "update_internal_state" /\ ~ hal.digital_out1) =>
             /\ error_code' = no_error
             /\ hal.error_code' = hal.error_code
      ]_vars

\* After a cycle with the alarm bit false the pin holds code 7 of an earlier
\* read and the remembered code is no_error.
ErrorCodePinWrittenByReadWitness ==
    /\ CycleDone
    /\ ~ hal.digital_out1
    /\ cyc.alarm_at_step = "off"
    /\ hal.error_code = 7
    /\ error_code = no_error
    /\ cyc.error_code_before = 7

\* C33: the pins dc-bus-volt, torque-load, res-braking and torque-overload
\* and the parameter modbus-polling are written by no step of a poll cycle:
\* they hold the values initialize_data gave them, 0, 0, 0, 0 and 1.0.
UnpolledPinsKeepDefaults ==
    /\ hal.dc_bus_volt = initialize_data.dc_bus_volt
    /\ hal.torque_load = initialize_data.torque_load
    /\ hal.res_braking = initialize_data.res_braking
    /\ hal.torque_overload = initialize_data.torque_overload
    /\ hal.modbus_polling = initialize_data.modbus_polling
    /\ initialize_data.dc_bus_volt = Dec(0, 0)
    /\ initialize_data.torque_load = Dec(0, 0)
    /\ initialize_data.res_braking = Dec(0, 0)
    /\ initialize_data.torque_overload = Dec(0, 0)
    /\ initialize_data.modbus_polling = Dec(1, 0)

\* A cycle has written every pin it polls, the error code among them, and
\* the four pins and the parameter are as constructed.
UnpolledPinsKeepDefaultsWitness ==
    /\ CycleDone
    /\ cyc.code_read
    /\ hal.error_code = 7
    /\ hal.commanded_speed # initialize_data.commanded_speed
    /\ hal.deviation_torque # initialize_data.deviation_torque
    /\ hal.digital_out1
    /\ hal.torque_load = Dec(0, 0)
    /\ hal.modbus_polling = Dec(1, 0)

\* C34: if from some cycle on the drive keeps its alarm output set with one
\* non-zero code, and cycles that decode the digital I/O block and cycles
\* that read the error code keep coming, then that alarm episode gets a
\* report of its code.
AlarmEventuallyReported ==
    ( /\ <>[] InEpisode(drive)
      /\ []<> (CycleDone /\ cyc.dio_decoded)
      /\ []<> (CycleDone /\ cyc.code_read) )
    => <>[] (InEpisode(drive) /\ hist.ep_own >= 1)

\* C35: a Lichuan_a4 constructor that fails after hal_init() succeeded (at
\* hal_malloc or at the pin creation) has called hal_exit() once and closed
\* and freed its session once when the exception reaches main(); one that
\* fails at hal_init() has not called hal_exit() and has closed and freed
\* its session.
ConstructorCleanup ==
    main.pc = "exit" =>
        /\ main.failure \in {"hal_malloc", "create_hal_pins"} =>
              main.ctor = [modbus_close |-> 1, modbus_free |-> 1, hal_exit |-> 1]
        /\ main.failure = "hal_init" =>
              main.ctor = [modbus_close |-> 1, modbus_free |-> 1, hal_exit |-> 0]

\* C36: when the construction of a device has failed, every device that was
\* constructed before it has had hal_exit() called and its session closed
\* when the process has ended.
EarlierDevicesTornDown ==
    (main.pc = "exit" /\ main.failure \in ConstructionOutcomes \ {"ok"}) =>
        \A i \in DOMAIN main.devices :
            main.hal_exit[i] = 1 /\ main.modbus_close[i] = 1

\* C37: a session that was opened is closed and freed once when no Modbus
\* object holds it any more, is not closed or freed while an object holds
\* it, and is never closed or freed twice.
SessionClosedOnce ==
    \A x \in Sessions :
        own.connected[x] =>
            IF \E w \in Wrappers : own.alive[w] /\ own.obj[w] = x
            THEN own.modbus_close[x] = 0 /\ own.modbus_free[x] = 0
            ELSE own.modbus_close[x] = 1 /\ own.modbus_free[x] = 1

\* C38: when a token of the target option is invalid, no device is
\* constructed and the tick loop is not entered.
InvalidTargetRejected ==
    main.invalid_token =>
        /\ main.devices = << >>
        /\ main.pc \in {"construct", "exit"}

====
